---- MODULE Spec2Model ----
(***************************************************************************)
(* Content cache, fetch coordinator and extraction orchestrator of the     *)
(* web scraper (src/markdown.py, src/scraper.py) and the script runs of    *)
(* its Streamlit application (src/streamlit_app.py), as a state machine.   *)
(*                                                                         *)
(* Texts handled by the response recovery are sequences of tokens: a token *)
(* stands for a run of characters the recovery never splits ("fence" the   *)
(* code fence, "json" the fence's language tag, "x" a word of prose,       *)
(* "k" a member key with its colon, "n" the literal null, "s" a string     *)
(* literal, "\n" a line break).                                            *)
(***************************************************************************)
EXTENDS Integers, Sequences, FiniteSets, TLC

\* Longest URL list of one fetch batch.
MaxUrls == 2
\* Longest identifier list of one extraction batch.
MaxNames == 2
\* Most rows the scraped_data table holds (a batch that could exceed it is not started).
MaxRows == 3
\* Longest core of a response text, in tokens.
MaxLen == 3
\* Longest URL list of a session of the application.
MaxSessionUrls == 1
\* Most rows the table holds in a session (a LAUNCH that could exceed it is not pressed).
MaxSessionRows == 2

VARIABLES
    store,               \* the scraped_data table: sequence of rows, in insertion order
    pc,                  \* "idle" | "fetch" | "step" | "scrape" | "recover" | "recovered"
    urls,                \* fetch_and_store_markdowns: the urls argument
    unique_names,        \* fetch_and_store_markdowns: unique_names / scrape_urls: the unique_names argument
    idx,                 \* position of the for loop of the running batch (1-based)
    total_input_tokens,  \* scrape_urls local
    total_output_tokens, \* scrape_urls local
    total_cost,          \* scrape_urls local
    extraction_results,  \* scrape_urls local
    event,               \* what the last step did (observation of the run)
    calls,               \* provider invocations of the running extraction batch that returned
    everOk,              \* identifiers whose fetched non-empty text has been saved
    response_text,       \* response recovery: the text under recovery
    extracted_data,      \* response recovery: the recovered value
    session_state,       \* streamlit_app: st.session_state
    widgets              \* streamlit_app: what the sidebar widgets hold

vars == <<store, pc, urls, unique_names, idx, total_input_tokens, total_output_tokens,
          total_cost, extraction_results, event, calls, everOk, response_text, extracted_data,
          session_state, widgets>>

(***************************************************************************)
(* Texts                                                                   *)
(***************************************************************************)
FENCE == "fence"
NL == "\n"
Alphabet == {"{", "}", "k", "n", "s", "x", NL, FENCE, "json"}
Whitespace == {NL}

SeqsUpTo(S, n) == UNION {[1..m -> S] : m \in 0..n}

\* Position of the first non-whitespace token at or after p (Len(t)+1 if none).
RECURSIVE SkipWs(_, _)
SkipWs(t, p) ==
    IF p <= Len(t) /\ t[p] \in Whitespace THEN SkipWs(t, p + 1) ELSE p

\* Position of the last non-whitespace token at or before p (0 if none).
RECURSIVE SkipWsBack(_, _)
SkipWsBack(t, p) ==
    IF p >= 1 /\ t[p] \in Whitespace THEN SkipWsBack(t, p - 1) ELSE p

\* str.strip()
strip(t) == SubSeq(t, SkipWs(t, 1), SkipWsBack(t, Len(t)))

\* The line-start anchor under re.MULTILINE: the start of the text or just after a line break.
AtLineStart(t, p) == p = 1 \/ t[p - 1] = NL

\* re.sub of a fence with the tag json at a line start and the whitespace after it, scanning from p.
RECURSIVE SubFenceJson(_, _)
SubFenceJson(t, p) ==
    IF p > Len(t) THEN <<>>
    ELSE IF AtLineStart(t, p) /\ t[p] = FENCE /\ p + 1 <= Len(t) /\ t[p + 1] = "json"
         THEN SubFenceJson(t, SkipWs(t, p + 2))
         ELSE <<t[p]>> \o SubFenceJson(t, p + 1)

\* re.sub of a line holding only a fence (MULTILINE), scanning from p: the whitespace run is
\* greedy and gives back one line break when the end-of-line anchor needs it.
RECURSIVE SubFenceLine(_, _)
SubFenceLine(t, p) ==
    IF p > Len(t) THEN <<>>
    ELSE IF AtLineStart(t, p) /\ t[p] = FENCE
         THEN LET q == SkipWs(t, p + 1) IN
              IF q > Len(t) THEN <<>>
              ELSE IF q > p + 1 THEN SubFenceLine(t, q - 1)
              ELSE <<t[p]>> \o SubFenceLine(t, p + 1)
         ELSE <<t[p]>> \o SubFenceLine(t, p + 1)

\* re.sub of a fence at the end of the text: the end anchor is the end of the text or just before a final line break.
SubFenceEnd(t) ==
    LET n == Len(t) IN
    IF n >= 1 /\ t[n] = FENCE THEN SubSeq(t, 1, n - 1)
    ELSE IF n >= 2 /\ t[n] = NL /\ t[n - 1] = FENCE THEN SubSeq(t, 1, n - 2) \o <<NL>>
    ELSE t

\* str.find / str.rfind, 1-based; 0 stands for -1.
find(t, c) == IF \E p \in 1..Len(t) : t[p] = c
              THEN CHOOSE p \in 1..Len(t) : t[p] = c /\ \A q \in 1..(p - 1) : t[q] # c
              ELSE 0
rfind(t, c) == IF \E p \in 1..Len(t) : t[p] = c
               THEN CHOOSE p \in 1..Len(t) : t[p] = c /\ \A q \in (p + 1)..Len(t) : t[q] # c
               ELSE 0

\* clean_json_response with the slice one short: text[start_idx:end_idx].
clean_json_response_SliceShort(text) ==
    LET t4 == strip(SubFenceEnd(SubFenceLine(SubFenceJson(text, 1), 1)))
        start_idx == find(t4, "{")
        end_idx == rfind(t4, "}")
    IN  IF start_idx # 0 /\ end_idx # 0 /\ end_idx > start_idx
        THEN SubSeq(t4, start_idx, end_idx - 1)
        ELSE t4

clean_json_response(text) ==
    LET t1 == SubFenceJson(text, 1)
        t2 == SubFenceLine(t1, 1)
        t3 == SubFenceEnd(t2)
        t4 == strip(t3)
        start_idx == find(t4, "{")
        end_idx == rfind(t4, "}")
    IN  IF start_idx # 0 /\ end_idx # 0 /\ end_idx > start_idx
        THEN SubSeq(t4, start_idx, end_idx)
        ELSE t4

(***************************************************************************)
(* JSON texts and Python values.  A value is [type, body]: None, a str     *)
(* (body: its text), a dict parsed from JSON (body: the JSON text without  *)
(* whitespace), or one of the two wrapper dicts (body: the wrapped text).  *)
(***************************************************************************)
None == [type |-> "None", body |-> <<>>]

\* Whether t is one JSON value: null, a string, {} or {"k": value}.
RECURSIVE IsJsonValue(_)
IsJsonValue(t) ==
    LET u == strip(t) IN
    \/ u = <<"n">>
    \/ u = <<"s">>
    \/ /\ Len(u) >= 2
       /\ u[1] = "{"
       /\ u[Len(u)] = "}"
       /\ LET inner == strip(SubSeq(u, 2, Len(u) - 1)) IN
          \/ inner = <<>>
          \/ /\ Len(inner) >= 2
             /\ inner[1] = "k"
             /\ IsJsonValue(Tail(inner))

StripAllWs(t) == SelectSeq(t, LAMBDA c : c \notin Whitespace)

\* json.loads: [ok |-> FALSE] stands for json.JSONDecodeError. A string literal
\* decodes to a str holding its characters, a word of prose.
json_loads(t) ==
    IF ~IsJsonValue(t) THEN [ok |-> FALSE, value |-> None]
    ELSE LET u == StripAllWs(t) IN
         [ok |-> TRUE,
          value |-> IF u = <<"n">> THEN None
                    ELSE IF u = <<"s">> THEN [type |-> "str", body |-> <<"x">>]
                    ELSE [type |-> "dict", body |-> u]]

\* {"extracted_data": [{"content": text, "metadata": {...}}]}
FallbackWrapper(text) == [type |-> "fallback", body |-> text]

\* RecoverResponse without the fallback: a text that does not parse is dropped.
RecoverResponse_NoFallback(data) ==
    IF data.type = "str"
    THEN json_loads(clean_json_response(data.body)).value
    ELSE data

\* scrape_urls, lines 129-137: the value kept for a provider result.
RecoverResponse(data) ==
    IF data.type = "str"
    THEN LET cleaned_response == clean_json_response(data.body)
             parsed == json_loads(cleaned_response)
         IN  IF parsed.ok THEN parsed.value ELSE FallbackWrapper(data.body)
    ELSE data


(***************************************************************************)
(* The scraped_data table and the content cache                            *)
(***************************************************************************)
Urls == {"https://a.test", "https://b.test"}

\* generate_unique_name giving every URL one and the same identifier.
generate_unique_name_Collides(url) == "a_test"

\* generate_unique_name (utils.py): a stable identifier, distinct per URL.
generate_unique_name(url) ==
    CASE url = "https://a.test" -> "a_test"
      [] url = "https://b.test" -> "b_test"

UniqueNames == {generate_unique_name(u) : u \in Urls}

\* The column upsert resolves conflicts on (save_raw_data: on_conflict="id").
OnConflictColumn == "id"

\* A new row as the table completes it: id is GENERATED ALWAYS AS IDENTITY, a
\* column the payload does not give is NULL.
NewRow(table, payload) ==
    [id |-> Len(table) + 1,
     unique_name |-> payload.unique_name,
     url |-> payload.url,
     raw_data |-> payload.raw_data,
     formatted_data |-> None]

\* table.upsert(payload, on_conflict=column): INSERT ... ON CONFLICT (column) DO
\* UPDATE SET the payload's columns; without a conflicting row, a plain insert.
Upsert(table, payload, column) ==
    LET new == NewRow(table, payload)
        hit == {k \in 1..Len(table) : table[k][column] = new[column]}
    IN  IF hit = {} THEN Append(table, new)
        ELSE [k \in 1..Len(table) |->
                IF k \in hit
                THEN [table[k] EXCEPT !.unique_name = payload.unique_name,
                                      !.url = payload.url,
                                      !.raw_data = payload.raw_data]
                ELSE table[k]]

\* save_raw_data putting its row in place of the table's rows.
save_raw_data_Truncates(table, unique_name, url, raw_data) ==
    <<NewRow(table, [unique_name |-> unique_name, url |-> url, raw_data |-> raw_data])>>

\* save_raw_data: the table after the call.
save_raw_data(table, unique_name, url, raw_data) ==
    Upsert(table, [unique_name |-> unique_name, url |-> url, raw_data |-> raw_data],
           OnConflictColumn)

\* select(...).eq("unique_name", unique_name): the matching rows.
SelectRows(table, unique_name) ==
    {k \in 1..Len(table) : table[k].unique_name = unique_name}

\* read_raw_data without lines 66-69: no result when no row matches.
read_raw_data_NoDefault(table, unique_name) ==
    {[content |-> table[k].raw_data, url |-> table[k].url] :
        k \in SelectRows(table, unique_name)}

\* read_raw_data: the results the call can return. The select gives no ORDER BY,
\* so data[0] is any of the matching rows.
read_raw_data(table, unique_name) ==
    LET data == SelectRows(table, unique_name) IN
    IF data # {}
    THEN {[content |-> table[k].raw_data, url |-> table[k].url] : k \in data}
    ELSE {[content |-> "", url |-> ""]}

\* HasContent taking every result of a read for content.
HasContent_Always(raw_data) == TRUE

\* The cache-hit test of both callers: raw_data and raw_data.get("content").
HasContent(raw_data) == raw_data.content # ""

(***************************************************************************)
(* Page Fetcher                                                            *)
(***************************************************************************)
Markdowns == {"", "md"}

\* What crawler.arun does: a result (success flag and markdown) or an exception.
CrawlOutcomes ==
    {[raised |-> FALSE, success |-> TRUE, markdown |-> m] : m \in Markdowns}
    \cup {[raised |-> FALSE, success |-> FALSE, markdown |-> ""],
          [raised |-> TRUE, success |-> FALSE, markdown |-> ""]}

\* get_fit_markdown_async, lines 36-39, for a result that arun returned.
get_fit_markdown_async(result) ==
    IF result.success THEN result.markdown ELSE ""


(***************************************************************************)
(* Observation of a step: which operation ran, for which identifier, why   *)
(* it ended (cause), whether the Page Fetcher / LLM Provider was invoked,  *)
(* the content read from the cache, the text written, the value kept.      *)
(***************************************************************************)
Ev(kind, name, cause, invoked, content, text, value) ==
    [kind |-> kind, name |-> name, cause |-> cause, invoked |-> invoked,
     content |-> content, text |-> text, value |-> value]
NoEvent == Ev("init", "", "", FALSE, "", "", None)

(***************************************************************************)
(* Fetch Coordinator: fetch_and_store_markdowns, one action per iteration  *)
(***************************************************************************)
\* NextItem staying on the item whose iteration has ended.
NextItem_Again(i) == i

\* The for loops of both stages (markdown.py:97, scraper.py:108): the place of
\* the item after the one whose iteration has ended.
NextItem(i) == i + 1

UrlLists == SeqsUpTo(Urls, MaxUrls)

\* Lines 85-95: the call and unique_names = [].
FetchStart(us) ==
    /\ pc = "idle"
    /\ Len(store) + Len(us) <= MaxRows
    /\ pc' = "fetch"
    /\ urls' = us
    /\ unique_names' = <<>>
    /\ idx' = 1
    /\ event' = Ev("fetch_start", "", "", FALSE, "", "", None)
    /\ UNCHANGED <<store, total_input_tokens, total_output_tokens, total_cost,
                   extraction_results, calls, everOk, response_text, extracted_data,
                   session_state, widgets>>

\* Lines 97-110: the loop body for urls[idx]. An exception of the store or of the
\* crawler is caught nowhere (fetch_fit_markdown has try/finally only): it ends the call.
FetchStep ==
    /\ pc = "fetch"
    /\ idx <= Len(urls)
    /\ LET url == urls[idx]
           unique_name == generate_unique_name(url)
       IN
       \/ \* read_raw_data raises
          /\ pc' = "idle"
          /\ event' = Ev("fetch_raised", unique_name, "read", FALSE, "", "", None)
          /\ urls' = <<>> /\ unique_names' = <<>> /\ idx' = 0
          /\ UNCHANGED <<store, everOk>>
       \/ \E raw_data \in read_raw_data(store, unique_name) :
             \/ \* line 103-104: content found, nothing fetched, nothing written
                /\ HasContent(raw_data)
                /\ unique_names' = Append(unique_names, unique_name)
                /\ idx' = NextItem(idx)
                /\ event' = Ev("cache_hit", unique_name, "", FALSE, raw_data.content, "", None)
                /\ UNCHANGED <<store, pc, urls, everOk>>
             \/ \* lines 105-109: fetch, then save
                /\ ~HasContent(raw_data)
                /\ \E result \in CrawlOutcomes :
                      \/ \* crawler.arun raises
                         /\ result.raised
                         /\ pc' = "idle"
                         /\ event' = Ev("fetch_raised", unique_name, "fetcher", TRUE,
                                        raw_data.content, "", None)
                         /\ urls' = <<>> /\ unique_names' = <<>> /\ idx' = 0
                         /\ UNCHANGED <<store, everOk>>
                      \/ \* the fetch returns, save_raw_data raises
                         /\ ~result.raised
                         /\ pc' = "idle"
                         /\ UNCHANGED everOk
                         /\ event' = Ev("fetch_raised", unique_name, "save", TRUE,
                                        raw_data.content, get_fit_markdown_async(result), None)
                         /\ urls' = <<>> /\ unique_names' = <<>> /\ idx' = 0
                         /\ UNCHANGED store
                      \/ \* the fetch returns and its text is saved
                         /\ ~result.raised
                         /\ LET fit_md == get_fit_markdown_async(result) IN
                            /\ store' = save_raw_data(store, unique_name, url, fit_md)
                            /\ everOk' = IF fit_md # "" THEN everOk \cup {unique_name} ELSE everOk
                            /\ event' = Ev("fetched", unique_name,
                                           IF result.success THEN "" ELSE "failure",
                                           TRUE, raw_data.content, fit_md, None)
                         /\ unique_names' = Append(unique_names, unique_name)
                         /\ idx' = NextItem(idx)
                         /\ UNCHANGED <<pc, urls>>
    /\ UNCHANGED <<total_input_tokens, total_output_tokens, total_cost,
                   extraction_results, calls, response_text, extracted_data,
                   session_state, widgets>>

\* Line 112: return unique_names. The call's frame is gone afterwards: what the
\* call returns is what unique_names holds when the loop has ended (FetchLoopEnded).
FetchReturn ==
    /\ pc = "fetch"
    /\ idx > Len(urls)
    /\ pc' = "idle"
    /\ urls' = <<>>
    /\ unique_names' = <<>>
    /\ idx' = 0
    /\ event' = Ev("fetch_return", "", "", FALSE, "", "", None)
    /\ UNCHANGED <<store, total_input_tokens, total_output_tokens,
                   total_cost, extraction_results, calls, everOk, response_text, extracted_data,
                   session_state, widgets>>

(***************************************************************************)
(* LLM Provider                                                            *)
(***************************************************************************)
\* Response texts of the provider: JSON in a fenced block, prose, and a bare
\* JSON string literal.
FencedResponse == <<FENCE, "json", NL, "{", "k", "n", "}", NL, FENCE>>
ProseResponse == <<"x">>
StringResponse == <<"s">>

\* What call_llm_model does: it returns (extracted_data, token_counts, cost), the
\* data a text (scrape_urls passes no response model), or it raises. The cost
\* is in a whole unit of money.
ProviderOutcomes ==
    {[raised |-> FALSE, data |-> [type |-> "str", body |-> FencedResponse],
      usage |-> [input_tokens |-> 1, output_tokens |-> 2, cost |-> 3]],
     [raised |-> FALSE, data |-> [type |-> "str", body |-> ProseResponse],
      usage |-> [input_tokens |-> 5, output_tokens |-> 7, cost |-> 11]],
     [raised |-> FALSE, data |-> [type |-> "str", body |-> StringResponse],
      usage |-> [input_tokens |-> 13, output_tokens |-> 17, cost |-> 19]],
     [raised |-> TRUE, data |-> None,
      usage |-> [input_tokens |-> 0, output_tokens |-> 0, cost |-> 0]]}

(***************************************************************************)
(* Extraction Orchestrator: scrape_urls, one action per iteration          *)
(***************************************************************************)
\* save_formatted_data, lines 36-44: the JSON stored for a value.
DataJson(formatted_data) ==
    IF formatted_data.type = "str"
    THEN LET parsed == json_loads(formatted_data.body) IN
         IF parsed.ok THEN parsed.value
         ELSE [type |-> "raw_text", body |-> formatted_data.body]
    ELSE formatted_data

\* save_formatted_data writing the whole row anew: the raw content is lost.
save_formatted_data_WholeRow(table, unique_name, formatted_data) ==
    [k \in 1..Len(table) |->
        IF table[k].unique_name = unique_name
        THEN [table[k] EXCEPT !.formatted_data = DataJson(formatted_data),
                              !.raw_data = ""]
        ELSE table[k]]

\* save_formatted_data, lines 46-48: update(...).eq("unique_name", unique_name)
\* sets the column in every row of that name.
save_formatted_data(table, unique_name, formatted_data) ==
    [k \in 1..Len(table) |->
        IF table[k].unique_name = unique_name
        THEN [table[k] EXCEPT !.formatted_data = DataJson(formatted_data)]
        ELSE table[k]]

NameLists == SeqsUpTo(UniqueNames, MaxNames)

\* One provider invocation, as logged for the running batch.
Call(name, outcome, stored) ==
    [name |-> name, returned |-> ~outcome.raised, data |-> outcome.data,
     usage |-> outcome.usage, stored |-> stored]

\* UpdateTotals with the two token counts taken from the wrong keys.
UpdateTotals_SwappedKeys(totals, usage) ==
    [input_tokens |-> totals.input_tokens + usage.output_tokens,
     output_tokens |-> totals.output_tokens + usage.input_tokens,
     cost |-> totals.cost + usage.cost]

\* UpdateTotals adding the cost only.
UpdateTotals_CostOnly(totals, usage) ==
    [input_tokens |-> totals.input_tokens,
     output_tokens |-> totals.output_tokens,
     cost |-> totals.cost + usage.cost]

\* Lines 143-145: the three totals after adding one call's token_counts and cost.
UpdateTotals(totals, usage) ==
    [input_tokens |-> totals.input_tokens + usage.input_tokens,
     output_tokens |-> totals.output_tokens + usage.output_tokens,
     cost |-> totals.cost + usage.cost]

\* The three totals of the running extraction batch.
Totals ==
    [input_tokens |-> total_input_tokens, output_tokens |-> total_output_tokens,
     cost |-> total_cost]

\* extraction_results.append({...}), lines 148-152.
ResultEntry(uniq, url, data) == [unique_name |-> uniq, url |-> url, extracted_data |-> data]

\* Lines 99-106: the call and the zeroed totals.
ScrapeStart(names) ==
    /\ pc = "idle"
    /\ pc' = "scrape"
    /\ unique_names' = names
    /\ idx' = 1
    /\ total_input_tokens' = 0
    /\ total_output_tokens' = 0
    /\ total_cost' = 0
    /\ extraction_results' = <<>>
    /\ calls' = <<>>
    /\ event' = Ev("scrape_start", "", "", FALSE, "", "", None)
    /\ UNCHANGED <<store, urls, everOk, response_text, extracted_data, session_state, widgets>>

\* Lines 108-155: the loop body for unique_names[idx]. read_raw_data (line 109)
\* stands before the try: its exception ends the call. Everything from the
\* provider call to the append is inside try/except Exception/continue. What
\* the caller does with an exception that ends the call is the caller's part.
ScrapeStep ==
    /\ pc = "scrape"
    /\ idx <= Len(unique_names)
    /\ LET uniq == unique_names[idx] IN
       \/ \* read_raw_data raises
          /\ pc' = "idle"
          /\ event' = Ev("scrape_raised", uniq, "read", FALSE, "", "", None)
          /\ unique_names' = <<>> /\ idx' = 0
          /\ total_input_tokens' = 0 /\ total_output_tokens' = 0 /\ total_cost' = 0
          /\ extraction_results' = <<>> /\ calls' = <<>>
          /\ UNCHANGED store
       \/ \E raw_data \in read_raw_data(store, uniq) :
             \/ \* lines 110-114: no content, skip
                /\ ~HasContent(raw_data)
                /\ idx' = NextItem(idx)
                /\ event' = Ev("scrape_skip", uniq, "", FALSE, raw_data.content, "", None)
                /\ UNCHANGED <<store, pc, unique_names, total_input_tokens, total_output_tokens,
                               total_cost, extraction_results, calls>>
             \/ /\ HasContent(raw_data)
                /\ \E outcome \in ProviderOutcomes :
                      \/ \* call_llm_model raises: except, continue
                         /\ outcome.raised
                         /\ idx' = NextItem(idx)
                         /\ calls' = Append(calls, Call(uniq, outcome, FALSE))
                         /\ event' = Ev("scrape_error", uniq, "provider", TRUE,
                                        raw_data.content, "", None)
                         /\ UNCHANGED <<store, pc, unique_names, total_input_tokens,
                                        total_output_tokens, total_cost, extraction_results>>
                      \/ \* the provider returns, save_formatted_data raises: except, continue
                         /\ ~outcome.raised
                         /\ idx' = NextItem(idx)
                         /\ calls' = Append(calls, Call(uniq, outcome, FALSE))
                         /\ event' = Ev("scrape_error", uniq, "save", TRUE, raw_data.content,
                                        "", None)
                         /\ UNCHANGED <<store, pc, unique_names, total_input_tokens,
                                        total_output_tokens, total_cost, extraction_results>>
                      \/ \* lines 129-152: recover, store, count, append
                         /\ ~outcome.raised
                         /\ LET data == RecoverResponse(outcome.data) IN
                            /\ store' = save_formatted_data(store, uniq, data)
                            /\ total_input_tokens' = UpdateTotals(Totals, outcome.usage).input_tokens
                            /\ total_output_tokens' = UpdateTotals(Totals, outcome.usage).output_tokens
                            /\ total_cost' = UpdateTotals(Totals, outcome.usage).cost
                            /\ extraction_results' =
                                  Append(extraction_results, ResultEntry(uniq, raw_data.url, data))
                            /\ calls' = Append(calls, Call(uniq, outcome, TRUE))
                            /\ event' = Ev("extracted", uniq,
                                           IF outcome.data.type = "str"
                                              /\ ~json_loads(clean_json_response(outcome.data.body)).ok
                                           THEN "parse_failure" ELSE "",
                                           TRUE, raw_data.content, "", data)
                         /\ idx' = NextItem(idx)
                         /\ UNCHANGED <<pc, unique_names>>
    /\ UNCHANGED <<urls, everOk, response_text, extracted_data>>

\* Line 157: return the totals and extraction_results. The call's frame is gone
\* afterwards: what the call returns is what its locals hold when the loop has ended
\* (ScrapeLoopEnded).
ScrapeReturn ==
    /\ pc = "scrape"
    /\ idx > Len(unique_names)
    /\ pc' = "idle"
    /\ unique_names' = <<>>
    /\ idx' = 0
    /\ total_input_tokens' = 0
    /\ total_output_tokens' = 0
    /\ total_cost' = 0
    /\ extraction_results' = <<>>
    /\ calls' = <<>>
    /\ event' = Ev("scrape_return", "", "", FALSE, "", "", None)
    /\ UNCHANGED <<store, urls, everOk, response_text, extracted_data, session_state, widgets>>

(***************************************************************************)
(* The Streamlit session (streamlit_app.py): session state and widgets     *)
(***************************************************************************)
\* assets.py, lines 37-42: the credentials each model needs.
MODELS_USED ==
    [m \in {"gpt-4o-mini", "gemini/gemini-1.5-flash"} |->
        IF m = "gpt-4o-mini" THEN {"OPENAI_API_KEY"} ELSE {"GEMINI_API_KEY"}]

\* The extraction prompts a user types: nothing, a line break only, a word.
Prompts == {<<>>, <<NL>>, <<"x">>}

\* What the sidebar widgets can hold (lines 82-97 and 151-159): the API keys
\* entered, the model selected (the select box is left on its first option),
\* the extraction toggle and the prompt, which is empty while the toggle is off
\* (line 153).
WidgetValues ==
    {w \in [api_keys : SUBSET {"OPENAI_API_KEY"},
            model_selection : {"gpt-4o-mini"},
            show_extraction : BOOLEAN,
            extraction_prompt : Prompts] :
        ~w.show_extraction => w.extraction_prompt = <<>>}

\* Lines 71-76 and 101-102: the session state of a new session (unique_names,
\* which the script has not set yet, as the empty list). The copies the script
\* keeps of the prompt, the model, the pagination choices and the totals (lines
\* 178-182, 214-216) are read by nothing the claims are about and are left out.
InitialSession ==
    [scraping_state |-> "idle", results |-> None, urls_splitted |-> <<>>,
     unique_names |-> <<>>]

\* The widgets of a new session: no key, the first model (index=0), extraction off.
InitialWidgets ==
    [api_keys |-> {}, model_selection |-> "gpt-4o-mini",
     show_extraction |-> FALSE, extraction_prompt |-> <<>>]

\* The selected model lacks a credential it needs (the ConfigurationError case).
MissingCredential(w) == ~(MODELS_USED[w.model_selection] \subseteq w.api_keys)

(***************************************************************************)
(* The pipeline: fetch batches and extraction batches in any order         *)
(***************************************************************************)
Init ==
    /\ store = <<>>
    /\ pc = "idle"
    /\ urls = <<>>
    /\ unique_names = <<>>
    /\ idx = 0
    /\ total_input_tokens = 0
    /\ total_output_tokens = 0
    /\ total_cost = 0
    /\ extraction_results = <<>>
    /\ event = NoEvent
    /\ calls = <<>>
    /\ everOk = {}
    /\ response_text = <<>>
    /\ extracted_data = None
    /\ session_state = InitialSession
    /\ widgets = InitialWidgets

Next ==
    \/ \E us \in UrlLists : FetchStart(us)
    \/ FetchStep
    \/ FetchReturn
    \/ \E names \in NameLists : ScrapeStart(names)
    \/ ScrapeStep /\ UNCHANGED <<session_state, widgets>>
    \/ ScrapeReturn

Spec == Init /\ [][Next]_vars


(***************************************************************************)
(* The application: script runs of streamlit_app.py.  pc is "idle" between *)
(* script runs, "fetch" inside fetch_and_store_markdowns (line 185),       *)
(* "step" at line 191, "scrape" inside scrape_urls (line 203).             *)
(***************************************************************************)
\* LaunchError with the prompt tested for emptiness without strip().
LaunchError_NoStrip(urls_splitted, show_extraction, extraction_prompt) ==
    IF urls_splitted = <<>> THEN "urls"
    ELSE IF show_extraction /\ extraction_prompt = <<>> THEN "prompt"
    ELSE ""

\* Lines 172-175: the error the LAUNCH handler reports, "" if it reports none.
LaunchError(urls_splitted, show_extraction, extraction_prompt) ==
    IF urls_splitted = <<>> THEN "urls"
    ELSE IF show_extraction /\ strip(extraction_prompt) = <<>> THEN "prompt"
    ELSE ""

\* Lines 82-97 and 151-159: the user changes a sidebar widget (a key, the
\* toggle, the prompt); the script runs again, without LAUNCH.
Rerun(w) ==
    /\ pc = "idle"
    /\ widgets' = w
    /\ pc' = "step"
    /\ event' = Ev("rerun", "", "", FALSE, "", "", None)
    /\ UNCHANGED <<store, urls, unique_names, idx, total_input_tokens, total_output_tokens,
                   total_cost, extraction_results, calls, everOk, response_text,
                   extracted_data, session_state>>

\* Lines 115-121: Add URLs appends the URLs typed to the list and reruns the script.
AddUrls(new_urls) ==
    /\ pc = "idle"
    /\ new_urls # <<>>
    /\ Len(session_state.urls_splitted) + Len(new_urls) <= MaxSessionUrls
    /\ session_state' =
          [session_state EXCEPT !.urls_splitted = session_state.urls_splitted \o new_urls]
    /\ pc' = "step"
    /\ event' = Ev("rerun", "", "", FALSE, "", "", None)
    /\ UNCHANGED <<store, urls, unique_names, idx, total_input_tokens, total_output_tokens,
                   total_cost, extraction_results, calls, everOk, response_text,
                   extracted_data, widgets>>

\* Lines 122-124: Clear URLs empties the list and reruns the script.
ClearUrls ==
    /\ pc = "idle"
    /\ session_state' = [session_state EXCEPT !.urls_splitted = <<>>]
    /\ pc' = "step"
    /\ event' = Ev("rerun", "", "", FALSE, "", "", None)
    /\ UNCHANGED <<store, urls, unique_names, idx, total_input_tokens, total_output_tokens,
                   total_cost, extraction_results, calls, everOk, response_text,
                   extracted_data, widgets>>

\* Lines 171-185: LAUNCH is pressed. An error is reported, or the choices are
\* saved and fetch_and_store_markdowns is called with the URL list.
Launch ==
    /\ pc = "idle"
    /\ LET err == LaunchError(session_state.urls_splitted, widgets.show_extraction,
                              widgets.extraction_prompt)
       IN
       \/ \* lines 172-175: st.error, then on to line 191
          /\ err # ""
          /\ pc' = "step"
          /\ event' = Ev("launch_error", "", err, FALSE, "", "", None)
          /\ UNCHANGED <<session_state, urls, unique_names, idx>>
       \/ \* lines 177-185
          /\ err = ""
          /\ Len(store) + Len(session_state.urls_splitted) <= MaxSessionRows
          /\ UNCHANGED session_state
          /\ pc' = "fetch"
          /\ urls' = session_state.urls_splitted
          /\ unique_names' = <<>>
          /\ idx' = 1
          /\ event' = Ev("fetch_start", "", "", FALSE, "", "", None)
    /\ UNCHANGED <<store, total_input_tokens, total_output_tokens, total_cost,
                   extraction_results, calls, everOk, response_text, extracted_data,
                   widgets>>

\* Lines 185-189: fetch_and_store_markdowns has returned; its list is kept and
\* the session moves on to "scraping".
LaunchFetched ==
    /\ pc = "fetch"
    /\ idx > Len(urls)
    /\ session_state' = [session_state EXCEPT !.unique_names = unique_names,
                                              !.scraping_state = "scraping"]
    /\ pc' = "step"
    /\ urls' = <<>>
    /\ unique_names' = <<>>
    /\ idx' = 0
    /\ event' = Ev("fetch_return", "", "", FALSE, "", "", None)
    /\ UNCHANGED <<store, total_input_tokens, total_output_tokens, total_cost,
                   extraction_results, calls, everOk, response_text, extracted_data,
                   widgets>>

\* Results leaving st.session_state['results'] unset.
Results_Unset(all_data, totals) == None

\* Lines 237-244: st.session_state['results'] for the data and totals given.
Results(all_data, totals) ==
    [type |-> "results", data |-> all_data, input_tokens |-> totals.input_tokens,
     output_tokens |-> totals.output_tokens, total_cost |-> totals.cost]

\* Lines 191-207: the processing step. Outside "scraping" the script only
\* displays; with extraction on, scrape_urls is called with the kept list;
\* with extraction off the step completes with no data.
ScrapingStep ==
    /\ pc = "step"
    /\ \/ /\ session_state.scraping_state # "scraping"
          /\ pc' = "idle"
          /\ event' = Ev("run_end", "", "", FALSE, "", "", None)
          /\ UNCHANGED <<session_state, unique_names, idx, calls>>
       \/ /\ session_state.scraping_state = "scraping"
          /\ widgets.show_extraction
          /\ pc' = "scrape"
          /\ unique_names' = session_state.unique_names
          /\ idx' = 1
          /\ calls' = <<>>
          /\ event' = Ev("scrape_start", "", "", FALSE, "", "", None)
          /\ UNCHANGED session_state
       \/ /\ session_state.scraping_state = "scraping"
          /\ ~widgets.show_extraction
          /\ session_state' =
                [session_state EXCEPT
                    !.results = Results(<<>>, [input_tokens |-> 0, output_tokens |-> 0,
                                               cost |-> 0]),
                    !.scraping_state = "completed"]
          /\ pc' = "idle"
          /\ event' = Ev("completed", "", "", FALSE, "", "", None)
          /\ UNCHANGED <<unique_names, idx, calls>>
    /\ total_input_tokens' = 0
    /\ total_output_tokens' = 0
    /\ total_cost' = 0
    /\ extraction_results' = <<>>
    /\ UNCHANGED <<store, urls, everOk, response_text, extracted_data, widgets>>

\* ScrapingFailed keeping what the step had gathered as the results of a completed run.
ScrapingFailed_KeepsPartial(session) ==
    [session EXCEPT !.results = Results(<<>>, [input_tokens |-> 0, output_tokens |-> 0,
                                                cost |-> 0]),
                    !.scraping_state = "completed"]

\* Lines 245-247: the session after an exception of the processing step.
ScrapingFailed(session) == [session EXCEPT !.scraping_state = "idle"]

\* Line 250: whether the script displays results.
ResultsDisplayed(session) == session.scraping_state = "completed" /\ session.results # None

\* One iteration of scrape_urls under the try of line 192: an exception that
\* ends scrape_urls is caught at lines 245-247.
ScrapingIteration ==
    /\ ScrapeStep
    /\ session_state' = IF event'.kind = "scrape_raised"
                        THEN ScrapingFailed(session_state)
                        ELSE session_state
    /\ UNCHANGED widgets

\* Lines 203-244: scrape_urls has returned; its totals and results are kept
\* and the session is "completed".
ScrapingDone ==
    /\ pc = "scrape"
    /\ idx > Len(unique_names)
    /\ session_state' =
          [session_state EXCEPT
              !.results = Results(extraction_results, Totals),
              !.scraping_state = "completed"]
    /\ pc' = "idle"
    /\ unique_names' = <<>>
    /\ idx' = 0
    /\ total_input_tokens' = 0
    /\ total_output_tokens' = 0
    /\ total_cost' = 0
    /\ extraction_results' = <<>>
    /\ calls' = <<>>
    /\ event' = Ev("completed", "", "", FALSE, "", "", None)
    /\ UNCHANGED <<store, urls, everOk, response_text, extracted_data, widgets>>

AppNext ==
    \/ \E w \in WidgetValues : Rerun(w)
    \/ \E new_urls \in SeqsUpTo(Urls, MaxSessionUrls) : AddUrls(new_urls)
    \/ ClearUrls
    \/ Launch
    \/ FetchStep
    \/ LaunchFetched
    \/ ScrapingStep
    \/ ScrapingIteration
    \/ ScrapingDone

AppSpec == Init /\ [][AppNext]_vars

(***************************************************************************)
(* Claims on the Fetch Coordinator and the Content Cache                   *)
(***************************************************************************)
\* The step observed by e invoked the Page Fetcher for identifier n.
FetcherInvoked(e, n) ==
    e.kind \in {"fetched", "fetch_raised"} /\ e.invoked /\ e.name = n

\* The next step of the running fetch batch is the iteration for identifier n.
FetchStepFor(n) ==
    pc = "fetch" /\ idx <= Len(urls) /\ generate_unique_name(urls[idx]) = n

\* Identifier n has a row holding non-empty raw content.
StoredNonEmpty(n) == \E k \in SelectRows(store, n) : store[k].raw_data # ""

\* The raw contents read(n) can return.
ReadContents(table, n) == {r.content : r \in read_raw_data(table, n)}

\* The fetch batch has run its loop to the end: unique_names is what it returns.
FetchLoopEnded == pc = "fetch" /\ idx > Len(urls)

\* C1: for a URL whose identifier is stored with non-empty rawContent, a step of
\* fetch_and_store_markdowns for it invokes the Page Fetcher zero times and leaves
\* the stored rawContent of that identifier unchanged.
C1_FetchIdempotence ==
    [][\A n \in UniqueNames :
          StoredNonEmpty(n) =>
             /\ ~FetcherInvoked(event', n)
             /\ SelectRows(store', n) = SelectRows(store, n)
             /\ \A k \in SelectRows(store, n) : store'[k].raw_data = store[k].raw_data]_vars

\* C2: once a fetch has returned non-empty text for an identifier (and it was
\* saved), no later step invokes the Page Fetcher for that identifier, and
\* read(identifier) returns one and the same content from then on.
C2_FetchedAtMostOnce ==
    [][\A n \in everOk :
          /\ ~FetcherInvoked(event', n)
          /\ Cardinality(ReadContents(store, n)) = 1
          /\ ReadContents(store', n) = ReadContents(store, n)]_vars

\* C3: write is an upsert keyed on the identifier: the table never holds two
\* rows of one identifier, and after a write read(identifier) returns the content
\* of that write.
C3_UpsertByIdentifier ==
    /\ \A n \in UniqueNames : Cardinality(SelectRows(store, n)) <= 1
    /\ event.kind = "fetched" => ReadContents(store, event.name) = {event.text}

\* C4: retry by re-run: a failed fetch writes the empty string; in every later
\* iteration for a URL (same batch or a later one) the Page Fetcher is invoked
\* if no fetch of that URL has succeeded yet, and the URL is a cache hit if one
\* has (an exception of the store's read aside).
C4_RetryByRerun ==
    [][\A n \in UniqueNames :
          FetchStepFor(n) /\ event'.cause # "read" =>
             /\ (n \in everOk) <=> (event'.kind = "cache_hit")
             /\ (n \notin everOk) <=> FetcherInvoked(event', n)
             /\ (event'.kind = "fetched" /\ event'.cause = "failure") =>
                   (event'.text = "" /\ "" \in ReadContents(store', n))]_vars

\* C5: a fetch failure, returned or raised by the Page Fetcher, never ends the
\* fetch batch: the batch returns one identifier per input URL, in input order.
C5_FetchFailureNotFatal ==
    /\ event.kind = "fetch_raised" => event.cause # "fetcher"
    /\ FetchLoopEnded =>
          unique_names = [k \in 1..Len(urls) |-> generate_unique_name(urls[k])]


(***************************************************************************)
(* Claims on the Extraction Orchestrator                                   *)
(***************************************************************************)
\* The extraction batch has run its loop to the end: its locals are what it returns.
ScrapeLoopEnded == pc = "scrape" /\ idx > Len(unique_names)

\* The sum of the usage of the calls of cs.
RECURSIVE SumUsage(_)
SumUsage(cs) ==
    IF cs = <<>> THEN [input_tokens |-> 0, output_tokens |-> 0, cost |-> 0]
    ELSE LET rest == SumUsage(Tail(cs)) IN
         [input_tokens |-> rest.input_tokens + Head(cs).usage.input_tokens,
          output_tokens |-> rest.output_tokens + Head(cs).usage.output_tokens,
          cost |-> rest.cost + Head(cs).usage.cost]

Returned(c) == c.returned
Stored(c) == c.stored

\* The provider's text of call c is not valid JSON even after recovery.
ParseFailure(c) ==
    c.returned /\ c.data.type = "str" /\ ~IsJsonValue(clean_json_response(c.data.body))

\* How many of the first k calls were stored: the place of call k's entry in extraction_results.
StoredUpTo(k) == Cardinality({j \in 1..k : calls[j].stored})

\* C7: a response that is not valid JSON even after recovery loses nothing: when
\* the write to the store goes through, the fallback wrapper holding the raw text
\* is the formattedData of the identifier, the call's tokens and cost are in the
\* totals, and the identifier has its entry in the results.
C7_ParseFailureKeepsResult ==
    /\ \A k \in 1..Len(calls) :
          (ParseFailure(calls[k]) /\ calls[k].stored) =>
             /\ StoredUpTo(k) <= Len(extraction_results)
             /\ extraction_results[StoredUpTo(k)].unique_name = calls[k].name
             /\ extraction_results[StoredUpTo(k)].extracted_data
                   = FallbackWrapper(calls[k].data.body)
             /\ Totals = SumUsage(SelectSeq(calls, Stored))
    /\ (event.kind = "extracted" /\ ParseFailure(calls[Len(calls)])) =>
          /\ calls[Len(calls)].stored
          /\ \A r \in SelectRows(store, event.name) :
                store[r].formatted_data = FallbackWrapper(calls[Len(calls)].data.body)
          /\ SelectRows(store, event.name) # {}

\* A parse failure was stored, counted and entered in the results.
C7_Witness ==
    /\ event.kind = "extracted"
    /\ ParseFailure(calls[Len(calls)])
    /\ calls[Len(calls)].stored
    /\ extraction_results[Len(extraction_results)].extracted_data.type = "fallback"
    /\ total_cost > 0

\* The batch met the case of C8: every identifier had content (one provider call
\* each), the provider raised for exactly one, and no write to the store failed.
OneProviderError ==
    /\ ScrapeLoopEnded
    /\ Len(calls) = Len(unique_names)
    /\ Cardinality({k \in 1..Len(calls) : ~calls[k].returned}) = 1
    /\ \A k \in 1..Len(calls) : calls[k].returned => calls[k].stored

\* The identifiers of the batch whose provider call returned, in input order.
RECURSIVE NamesReturned(_, _)
NamesReturned(names, cs) ==
    IF names = <<>> THEN <<>>
    ELSE (IF Head(cs).returned THEN <<Head(names)>> ELSE <<>>)
         \o NamesReturned(Tail(names), Tail(cs))

\* C8: in a batch of N identifiers with content where the provider raises for
\* exactly one, the call ends normally with entries for exactly the other N-1
\* identifiers, in order, and totals that are the sums over those N-1 calls.
C8_PartialFailureIsolation ==
    /\ OneProviderError =>
          /\ [j \in 1..Len(extraction_results) |-> extraction_results[j].unique_name]
                = NamesReturned(unique_names, calls)
          /\ Len(extraction_results) = Len(unique_names) - 1
          /\ Totals = SumUsage(SelectSeq(calls, Returned))
    /\ (event.kind = "scrape_error" /\ event.cause = "provider") => pc = "scrape"

\* A batch of two identifiers, the provider raised for one, one entry returned.
C8_Witness ==
    /\ OneProviderError
    /\ Len(unique_names) = 2
    /\ Len(extraction_results) = 1
    /\ total_input_tokens > 0

\* C9: an exception of the store while one identifier is processed, in the read
\* of its content or in the write of its formatted data, is caught: scrape_urls
\* does not raise, and goes on with the next identifier.
C9_StoreErrorCaught ==
    /\ event.kind # "scrape_raised"
    /\ (event.kind = "scrape_error" /\ event.cause = "save") => pc = "scrape"

\* C10: the totals scrape_urls returns are the sums of the tokens and cost of all
\* provider invocations of the batch that returned, those whose result could not
\* be stored afterwards included.
C10_UsageAccounting ==
    ScrapeLoopEnded => Totals = SumUsage(SelectSeq(calls, Returned))

\* The calls of the running batch whose result was stored, one per result entry.
StoredCalls == SelectSeq(calls, Stored)

\* The place of the last result entry of identifier n (0 if it has none).
LastEntry(n) ==
    LET js == {j \in 1..Len(extraction_results) : extraction_results[j].unique_name = n}
    IN  IF js = {} THEN 0 ELSE CHOOSE j \in js : \A i \in js : i <= j

\* C11: the results hold an entry only for identifiers that succeeded end to
\* end: the entries are, in order, the calls that returned and whose write to the
\* store completed, each with the value recovered from that call; and when the
\* loop has ended every row of an identifier holds, as formattedData, the
\* extractedData of the identifier's latest entry.
C11_ResultsMatchStore ==
    pc = "scrape" =>
       /\ Len(extraction_results) = Len(StoredCalls)
       /\ \A j \in 1..Len(extraction_results) :
             /\ extraction_results[j].unique_name = StoredCalls[j].name
             /\ extraction_results[j].extracted_data = RecoverResponse(StoredCalls[j].data)
       /\ ScrapeLoopEnded =>
             \A n \in UniqueNames :
                LastEntry(n) # 0 =>
                   /\ SelectRows(store, n) # {}
                   /\ \A k \in SelectRows(store, n) :
                         store[k].formatted_data
                            = extraction_results[LastEntry(n)].extracted_data

(***************************************************************************)
(* Claims on the content cache as both stages use it                       *)
(***************************************************************************)
\* The next step of the running extraction batch is the iteration for identifier n.
ScrapeStepFor(n) ==
    pc = "scrape" /\ idx <= Len(unique_names) /\ unique_names[idx] = n

\* Identifier n has no row, or only rows with empty raw content.
NoContentStored(n) == \A k \in SelectRows(store, n) : store[k].raw_data = ""

\* C14: read never fails for a missing row: for an identifier without a row it
\* returns empty content and empty url; and for an identifier without a row, as
\* for one whose rows hold empty content, the Fetch Coordinator fetches and the
\* Extraction Orchestrator skips (an exception of the store aside).
C14_MissingRowLikeEmpty ==
    [][\A n \in UniqueNames :
          /\ SelectRows(store, n) = {} =>
                read_raw_data(store, n) = {[content |-> "", url |-> ""]}
          /\ (NoContentStored(n) /\ FetchStepFor(n) /\ event'.cause # "read") =>
                FetcherInvoked(event', n)
          /\ (NoContentStored(n) /\ ScrapeStepFor(n) /\ event'.kind # "scrape_raised") =>
                (event'.kind = "scrape_skip" /\ event'.name = n)]_vars

\* An identifier without a row was skipped by an extraction batch, while
\* another identifier has a row.
C14_Witness ==
    /\ event.kind = "scrape_skip"
    /\ SelectRows(store, event.name) = {}
    /\ store # <<>>

\* C15: the identifier is a function of the URL and distinct URLs have distinct
\* identifiers: each identifier a fetch batch returns is that of the URL at its
\* place, every row is keyed by the identifier of its own url, and a cache hit
\* for a URL comes from a row written for that very URL.
C15_IdentifierPerUrl ==
    /\ \A u \in Urls : \A v \in Urls :
          generate_unique_name(u) = generate_unique_name(v) => u = v
    /\ \A k \in 1..Len(store) : store[k].unique_name = generate_unique_name(store[k].url)
    /\ pc = "fetch" =>
          /\ Len(unique_names) = idx - 1
          /\ \A j \in 1..Len(unique_names) :
                unique_names[j] = generate_unique_name(urls[j])
    /\ (pc = "fetch" /\ event.kind = "cache_hit") =>
          /\ \E k \in 1..Len(store) :
                store[k].url = urls[idx - 1] /\ store[k].raw_data = event.content
          /\ \A k \in SelectRows(store, event.name) : store[k].url = urls[idx - 1]

\* A cache hit for one URL while the store also holds a row of another URL.
C15_Witness ==
    /\ pc = "fetch"
    /\ event.kind = "cache_hit"
    /\ \E k \in 1..Len(store) : store[k].url # urls[idx - 1]

\* C16: in scrape_urls an identifier whose cached content is absent or empty is
\* skipped: no provider invocation, no write to the store, totals and results
\* unchanged, and the batch goes on with the next identifier.
C16_EmptyContentSkipped ==
    [][\A n \in UniqueNames :
          (ScrapeStepFor(n) /\ event'.kind # "scrape_raised"
             /\ (NoContentStored(n) \/ event'.content = "")) =>
             /\ event'.kind = "scrape_skip"
             /\ ~event'.invoked
             /\ calls' = calls
             /\ store' = store
             /\ Totals' = Totals
             /\ extraction_results' = extraction_results
             /\ pc' = "scrape"
             /\ unique_names' = unique_names
             /\ idx' = idx + 1]_vars

\* The first identifier of a batch was skipped and the second was extracted.
C16_Witness ==
    /\ pc = "scrape"
    /\ event.kind = "extracted"
    /\ idx = 3
    /\ Len(calls) = 1
    /\ NoContentStored(unique_names[1])

\* A batch of one of the two stages is running and the step stays inside it.
InBatch == pc \in {"fetch", "scrape"} /\ pc' = pc

\* C17: no automatic retry within a run: a step that invokes the Page Fetcher
\* or the LLM Provider does so for the item the loop stands on, and whatever the
\* outcome the loop then stands on the next item or the batch has ended; the
\* loop never steps back. So no occurrence of a URL or identifier in the input
\* list gets a second invocation.
C17_NoAutomaticRetry ==
    [][/\ event'.invoked =>
             /\ pc \in {"fetch", "scrape"}
             /\ idx <= (IF pc = "fetch" THEN Len(urls) ELSE Len(unique_names))
             /\ event'.name = (IF pc = "fetch" THEN generate_unique_name(urls[idx])
                               ELSE unique_names[idx])
             /\ (pc' = pc /\ idx' = idx + 1) \/ pc' = "idle"
       /\ InBatch => idx' \in {idx, idx + 1}
       /\ (InBatch /\ pc = "scrape") => Len(calls') <= idx' - 1]_vars

\* A fetch failed for the first URL of a batch and the loop went on to the second.
C17_Witness ==
    /\ pc = "fetch"
    /\ event.kind = "fetched"
    /\ event.cause = "failure"
    /\ idx = 2
    /\ Len(urls) = 2

\* C18: the items of a batch are processed one after the other in input order:
\* the identifiers collected so far are those of the URLs before the loop's place,
\* the extraction batch has made at most one call per identifier before its
\* place, and the read for an item comes after the write for the item before it,
\* so a URL that directly repeats the URL before it reads the content just
\* written for that URL (an exception of the store's read aside).
C18_SequentialInOrder ==
    [][/\ pc = "fetch" =>
             /\ Len(unique_names) = idx - 1
             /\ \A j \in 1..Len(unique_names) :
                   unique_names[j] = generate_unique_name(urls[j])
       /\ pc = "scrape" => Len(calls) <= idx - 1
       /\ \A n \in UniqueNames :
             (FetchStepFor(n) /\ idx > 1 /\ event.kind = "fetched" /\ event.name = n
                /\ event'.cause # "read")
             => event'.content = event.text]_vars

\* C19: the usage tally is never reset or partly updated during a run: a call
\* of scrape_urls starts with the three totals at zero; a step of the batch
\* leaves totals and results alone or adds one returned call's input tokens,
\* output tokens and cost together with one result entry; and at every point
\* the totals are the sums over the calls behind the entries of the results.
C19_TallyInStepWithResults ==
    [][/\ event'.kind = "scrape_start" =>
             /\ Totals' = [input_tokens |-> 0, output_tokens |-> 0, cost |-> 0]
             /\ extraction_results' = <<>>
       /\ (pc = "scrape" /\ pc' = "scrape") =>
             \/ Totals' = Totals /\ extraction_results' = extraction_results
             \/ \E o \in ProviderOutcomes :
                   /\ ~o.raised
                   /\ total_input_tokens' = total_input_tokens + o.usage.input_tokens
                   /\ total_output_tokens' = total_output_tokens + o.usage.output_tokens
                   /\ total_cost' = total_cost + o.usage.cost
                   /\ Len(extraction_results') = Len(extraction_results) + 1
       /\ pc = "scrape" =>
             /\ Len(extraction_results) = Len(StoredCalls)
             /\ \A j \in 1..Len(extraction_results) :
                   extraction_results[j].unique_name = StoredCalls[j].name
             /\ Totals = SumUsage(StoredCalls)]_vars

\* Two entries in the results, the totals holding the sum of two different calls.
C19_Witness ==
    /\ pc = "scrape"
    /\ Len(extraction_results) = 2
    /\ total_input_tokens = 6
    /\ total_output_tokens = 9
    /\ total_cost = 14

\* C20: frame conditions: a step of an extraction batch creates no row and
\* leaves id, unique_name, url and raw content of every row as they were; a
\* step of a fetch batch removes no row and leaves the formattedData of every
\* existing row as it was; a cache hit writes nothing.
C20_StageFrames ==
    [][/\ pc = "scrape" =>
             /\ Len(store') = Len(store)
             /\ \A k \in 1..Len(store) :
                   /\ store'[k].id = store[k].id
                   /\ store'[k].unique_name = store[k].unique_name
                   /\ store'[k].url = store[k].url
                   /\ store'[k].raw_data = store[k].raw_data
       /\ pc = "fetch" =>
             /\ Len(store') >= Len(store)
             /\ \A k \in 1..Len(store) :
                   store'[k].formatted_data = store[k].formatted_data
       /\ event'.kind = "cache_hit" => store' = store]_vars

\* A fetch wrote a row while an earlier row held formatted data, after an
\* extraction batch had written that formatted data.
C20_Witness ==
    /\ event.kind = "fetched"
    /\ Len(store) >= 2
    /\ store[1].formatted_data # None
    /\ store[1].raw_data = "md"

\* The identifiers that have a row in the table.
StoredNames(table) == {table[k].unique_name : k \in 1..Len(table)}

\* C21: no step of a fetch batch or of an extraction batch deletes a record:
\* every row stays, under its id and its identifier, so the set of identifiers
\* that have a row only grows.
C21_RecordsNeverDeleted ==
    [][/\ StoredNames(store) \subseteq StoredNames(store')
       /\ Len(store') >= Len(store)
       /\ \A k \in 1..Len(store) :
             /\ store'[k].id = store[k].id
             /\ store'[k].unique_name = store[k].unique_name]_vars

\* A fetch for a second identifier wrote its row after an extraction batch had
\* written formatted data for the first: both identifiers have their rows.
C21_Witness ==
    /\ event.kind = "fetched"
    /\ StoredNames(store) = UniqueNames
    /\ \E k \in 1..Len(store) :
          store[k].unique_name # event.name /\ store[k].formatted_data # None

(***************************************************************************)
(* Claims on the application                                               *)
(***************************************************************************)
\* C12: a missing credential of the selected model is fatal at batch start: in
\* a session whose selected model lacks a credential, no step invokes the Page
\* Fetcher or the LLM Provider and no step writes to the store.
C12_ConfigurationErrorFatal ==
    [][MissingCredential(widgets) => (~event'.invoked /\ store' = store)]_vars

\* The step is a press of LAUNCH.
LaunchPressed == pc = "idle" /\ event'.kind \in {"launch_error", "fetch_start"}

\* The prompt holds nothing but whitespace.
Blank(prompt) == \A p \in 1..Len(prompt) : prompt[p] \in Whitespace

\* The run preconditions are missing: no URL, or extraction on with a blank prompt.
PreconditionsMissing ==
    \/ session_state.urls_splitted = <<>>
    \/ widgets.show_extraction /\ Blank(widgets.extraction_prompt)

\* C13: LAUNCH with an empty URL list, or with extraction on and a blank prompt,
\* reports an error; neither the handler nor the rest of that script run fetches,
\* calls the provider or writes to the store, and scraping_state, unique_names
\* and results stay as they were.
C13_MissingPreconditionsFatal ==
    [][/\ (LaunchPressed /\ PreconditionsMissing) =>
             /\ event'.kind = "launch_error"
             /\ pc' = "step"
             /\ ~event'.invoked
             /\ store' = store
             /\ session_state' = session_state
       /\ (pc = "step" /\ event.kind = "launch_error") =>
             /\ pc' = "idle"
             /\ ~event'.invoked
             /\ store' = store
             /\ session_state' = session_state]_vars

\* LAUNCH was pressed with a whitespace-only prompt in a session that had
\* completed a run before: an error was reported.
C13_Witness ==
    /\ pc = "step"
    /\ event.kind = "launch_error"
    /\ event.cause = "prompt"
    /\ widgets.extraction_prompt = <<NL>>
    /\ session_state.scraping_state = "completed"
    /\ store # <<>>

\* The identifiers of the result entries of data, in order.
EntryNames(data) == [j \in 1..Len(data) |-> data[j].unique_name]

\* a is b with some items left out.
RECURSIVE IsSubsequence(_, _)
IsSubsequence(a, b) ==
    IF a = <<>> THEN TRUE
    ELSE IF b = <<>> THEN FALSE
    ELSE IF Head(a) = Head(b) THEN IsSubsequence(Tail(a), Tail(b))
    ELSE IsSubsequence(a, Tail(b))

C23_FailedRunKeepsResults ==
    [][/\ event'.kind = "scrape_raised" =>
             /\ session_state.scraping_state = "scraping"
             /\ session_state'.scraping_state = "idle"
             /\ session_state'.results = session_state.results
             /\ ~ResultsDisplayed(session_state')
             /\ pc' = "idle"
       /\ (~ResultsDisplayed(session_state) /\ ResultsDisplayed(session_state')) =>
             event'.kind = "completed"
       /\ event'.kind = "fetch_raised" =>
             /\ session_state' = session_state
             /\ pc' = "idle"]_vars

\* The processing step raised in a session that held the results of an earlier
\* run: the results are still there and the state is "idle".
C23_Witness ==
    /\ event.kind = "scrape_raised"
    /\ session_state.scraping_state = "idle"
    /\ session_state.results.type = "results"
    /\ Len(session_state.results.data) = 1

(***************************************************************************)
(* Response recovery on its own: a response text is drawn, then recovered. *)
(***************************************************************************)
\* The response texts: every token sequence of up to MaxLen tokens, as it is,
\* inside a fenced block (with and without the json tag), and inside a fenced
\* block with prose around it.
FencedJson(core) == <<FENCE, "json", NL>> \o core \o <<NL, FENCE>>
FencedPlain(core) == <<FENCE, NL>> \o core \o <<NL, FENCE>>
FencedInProse(core) == <<"x", NL, FENCE, "json", NL>> \o core \o <<NL, FENCE, NL, "x">>
Cores == SeqsUpTo(Alphabet, MaxLen)
ResponseTexts ==
    Cores \cup {FencedJson(c) : c \in Cores} \cup {FencedPlain(c) : c \in Cores}
          \cup {FencedInProse(c) : c \in Cores}

Pending == [type |-> "pending", body |-> <<>>]

RecoverInit ==
    /\ store = <<>>
    /\ pc = "recover"
    /\ urls = <<>>
    /\ unique_names = <<>>
    /\ idx = 0
    /\ total_input_tokens = 0
    /\ total_output_tokens = 0
    /\ total_cost = 0
    /\ extraction_results = <<>>
    /\ event = NoEvent
    /\ calls = <<>>
    /\ everOk = {}
    /\ response_text \in ResponseTexts
    /\ extracted_data = Pending
    /\ session_state = InitialSession
    /\ widgets = InitialWidgets

\* scrape_urls, lines 129-137, applied to a response text.
Recover ==
    /\ pc = "recover"
    /\ extracted_data = Pending
    /\ extracted_data' = RecoverResponse([type |-> "str", body |-> response_text])
    /\ pc' = "recovered"
    /\ UNCHANGED <<store, urls, unique_names, idx, total_input_tokens, total_output_tokens,
                   total_cost, extraction_results, event, calls, everOk, response_text,
                   session_state, widgets>>

RecoverNext == Recover

RecoverSpec == RecoverInit /\ [][RecoverNext]_vars

(***************************************************************************)
(* Claims on the response recovery                                         *)
(***************************************************************************)
Recovered == pc = "recovered"

\* t is a JSON object, possibly with whitespace around it.
IsJsonObject(t) == IsJsonValue(t) /\ strip(t)[1] = "{"

Before(t, a) == SubSeq(t, 1, a - 1)
After(t, b) == SubSeq(t, b + 1, Len(t))
Has(t, c) == \E p \in 1..Len(t) : t[p] = c

\* No part of t is a JSON value.
NoJsonInside(t) ==
    \A a \in 1..Len(t) : \A b \in a..Len(t) : ~IsJsonValue(SubSeq(t, a, b))

\* Prose: words, line breaks, fences and stray braces, with no JSON value inside.
IsProse(t) ==
    /\ \A p \in 1..Len(t) : t[p] \in {"x", NL, "{", "}", FENCE, "json"}
    /\ NoJsonInside(t)

\* The places (a, b) where response_text holds a JSON object.
ObjectPlaces ==
    {ab \in (1..Len(response_text)) \X (1..Len(response_text)) :
        ab[1] <= ab[2] /\ IsJsonObject(SubSeq(response_text, ab[1], ab[2]))}

\* (a) pure JSON and (b) JSON in a fenced block recover to the parsed object.
RecoversPureAndFenced ==
    /\ IsJsonObject(response_text) => extracted_data = json_loads(response_text).value
    /\ \A core \in Cores :
          (IsJsonObject(core)
             /\ response_text \in {FencedJson(core), FencedPlain(core), FencedInProse(core)})
          => extracted_data = json_loads(core).value

\* C6 as stated: (a) pure JSON, (b) fenced JSON, (c) JSON with prose before
\* and/or after recover to the parsed object; (d) non-JSON text recovers to the
\* fallback wrapper holding the original text; the recovered value is never null.
C6_RecoveryAsStated ==
    Recovered =>
       /\ RecoversPureAndFenced
       /\ \A ab \in ObjectPlaces :
             (IsProse(Before(response_text, ab[1])) /\ IsProse(After(response_text, ab[2])))
             => extracted_data = json_loads(SubSeq(response_text, ab[1], ab[2])).value
       /\ NoJsonInside(response_text) => extracted_data = FallbackWrapper(response_text)
       /\ extracted_data # None

\* C6, amended: (a) and (b) as stated; (c) for a JSON object with no "{" in the
\* text before it and no "}" in the text after it; (d) whenever the cleaned text
\* is not valid JSON, and so for every text without a fence that holds no JSON
\* value, the fallback wrapper holds the original text unchanged; the value is
\* null only when the cleaned text is the JSON literal null, and is otherwise a
\* parsed JSON value or the wrapper.
C6_RecoveryRobustness ==
    Recovered =>
       /\ RecoversPureAndFenced
       /\ \A ab \in ObjectPlaces :
             (~Has(Before(response_text, ab[1]), "{") /\ ~Has(After(response_text, ab[2]), "}"))
             => extracted_data = json_loads(SubSeq(response_text, ab[1], ab[2])).value
       /\ ~IsJsonValue(clean_json_response(response_text))
             => extracted_data = FallbackWrapper(response_text)
       /\ (NoJsonInside(response_text) /\ ~Has(response_text, FENCE))
             => extracted_data = FallbackWrapper(response_text)
       /\ extracted_data = None => StripAllWs(clean_json_response(response_text)) = <<"n">>
       /\ extracted_data.type \in {"None", "str", "dict", "fallback"}

\* A JSON object in a fenced block with prose around it was recovered.
C6_Witness ==
    /\ Recovered
    /\ response_text = FencedInProse(<<"{", "}">>)
    /\ extracted_data.type = "dict"

====
